---- MODULE Spec2Model ----
(***************************************************************************)
(* bom_to_kicad.py: extraction of LCSC part identifiers from a BOM file    *)
(* and the sequential batch of easyeda2kicad invocations driven from it.   *)
(*                                                                         *)
(* Text is modelled as sequences of code points, files as sequences of     *)
(* bytes, so that trimming, ordinal comparison, decoding and delimiter     *)
(* detection are computed the way the program computes them.               *)
(***************************************************************************)
EXTENDS Integers, Sequences, FiniteSets, TLC

VARIABLES
    args,           \* argparse.Namespace returned by parse_arguments()
    fs,             \* the absolute paths that exist on disk
    fs_writable,    \* whether os.makedirs is permitted to create directories
    bom_file,       \* content of the file args.bom names (when it exists)
    stdin,          \* the line the operator types at an input() prompt
    chunk,          \* bytes the text layer reads and decodes at a time
    pc,             \* position of the control thread
    file_read,      \* whether a reader opened the BOM file
    detect_ran,     \* whether read_csv ran its delimiter detection
    delimiter_used, \* the delimiter read_csv handed to the parser
    df,             \* extract_lcsc_parts: the table read
    parts,          \* main: the identifier list
    cli_args,       \* main: tokens from build_easyeda2kicad_args
    idx,            \* main: position of the for loop in parts
    success_count,  \* main: success_count
    status,         \* per identifier: pending / running / succeeded / failed
    calls,          \* the commands handed to subprocess.run, in order
    outcomes,       \* how each finished invocation ended, in order
    exit_status,    \* <<>> while the process runs, then <<its exit status>>
    column,         \* unit harness: the column given to the extractor
    ret             \* unit harness: value returned by the function under test

vars == <<args, fs, fs_writable, bom_file, stdin, chunk, pc, file_read,
          detect_ran, delimiter_used, df, parts, cli_args, idx, success_count,
          status, calls, outcomes, exit_status, column, ret>>

(***************************************************************************)
(* Bounds of the model.                                                    *)
(***************************************************************************)
MaxCellLen == 2
MaxColumnLen == 2

(***************************************************************************)
(* Text: str values as sequences of code points.                           *)
(***************************************************************************)
None == [none |-> TRUE]

\* None where a str may stand: no text holds the code point -1
NoneStr == <<-1>>

\* str.isspace(): the characters str.strip() removes and the regex \s matches.
IsSpace(c) ==
    \/ c \in 9..13
    \/ c \in 28..32
    \/ c \in {133, 160, 5760, 8232, 8233, 8239, 8287, 12288}
    \/ c \in 8192..8202

RECURSIVE LStrip(_)
LStrip(s) ==
    IF s = <<>> THEN s
    ELSE IF IsSpace(Head(s)) THEN LStrip(Tail(s)) ELSE s

RECURSIVE RStrip(_)
RStrip(s) ==
    IF s = <<>> THEN s
    ELSE IF IsSpace(s[Len(s)]) THEN RStrip(SubSeq(s, 1, Len(s) - 1)) ELSE s

\* str.strip()
Strip(s) == RStrip(LStrip(s))

\* re: ^\s*$
MatchesBlank(s) == \A i \in 1..Len(s) : IsSpace(s[i])

\* Mutant of StrLess: comparison after case folding (str.lower as the key).
Fold(c) == IF c \in 65..90 THEN c + 32 ELSE c

RECURSIVE StrLess_CaseFold(_, _)
StrLess_CaseFold(a, b) ==
    IF b = <<>> THEN FALSE
    ELSE IF a = <<>> THEN TRUE
    ELSE IF Fold(Head(a)) # Fold(Head(b)) THEN Fold(Head(a)) < Fold(Head(b))
    ELSE StrLess_CaseFold(Tail(a), Tail(b))

\* Python's < on str: code point by code point, a proper prefix first.
RECURSIVE StrLess(_, _)
StrLess(a, b) ==
    IF b = <<>> THEN FALSE
    ELSE IF a = <<>> THEN TRUE
    ELSE IF Head(a) # Head(b) THEN Head(a) < Head(b)
    ELSE StrLess(Tail(a), Tail(b))

(***************************************************************************)
(* pandas Series of str-or-NA cells.                                       *)
(***************************************************************************)
NA == [na |-> TRUE, s |-> <<>>]
Cell(t) == [na |-> FALSE, s |-> t]

\* No table read (yet)
NoTable == [columns |-> <<>>, rows |-> <<>>]

NotNA(c) == ~c.na

\* Series.dropna()
DropNA(ser) == SelectSeq(ser, NotNA)

\* Mutant of StripCell: only leading whitespace removed (str.lstrip).
StripCell_LeftOnly(c) == IF c.na THEN c ELSE Cell(LStrip(c.s))

StripCell(c) == IF c.na THEN c ELSE Cell(Strip(c.s))

\* Series.str.strip()
StrStrip(ser) == [i \in 1..Len(ser) |-> StripCell(ser[i])]

BlankToNA(c) == IF ~c.na /\ MatchesBlank(c.s) THEN NA ELSE c

\* Series.replace(r'^\s*$', pd.NA, regex=True)
ReplaceBlank(ser) == [i \in 1..Len(ser) |-> BlankToNA(ser[i])]

RECURSIVE UniqueFrom(_, _)
UniqueFrom(ser, seen) ==
    IF ser = <<>> THEN seen
    ELSE UniqueFrom(Tail(ser),
                    IF \E i \in 1..Len(seen) : seen[i] = Head(ser) THEN seen
                    ELSE Append(seen, Head(ser)))

\* Series.unique(): values in order of first appearance
Unique(ser) == UniqueFrom(ser, <<>>)

RECURSIVE InsertSorted(_, _)
InsertSorted(x, l) ==
    IF l = <<>> THEN <<x>>
    ELSE IF StrLess(x, Head(l)) THEN <<x>> \o l
    ELSE <<Head(l)>> \o InsertSorted(x, Tail(l))

\* sorted() on a list of str
RECURSIVE Sorted(_)
Sorted(l) ==
    IF l = <<>> THEN <<>>
    ELSE InsertSorted(l[Len(l)], Sorted(SubSeq(l, 1, Len(l) - 1)))

\* Series.astype(str) on cells that are already str
AsTypeStr(ser) == [i \in 1..Len(ser) |-> Cell(ser[i].s)]

\* list(parts): the values of the array
Values(ser) == [i \in 1..Len(ser) |-> ser[i].s]

\* extract_lcsc_parts, lines 123-135: the pipeline on the selected column
ExtractPipeline(ser) ==
    Sorted(Values(
        Unique(DropNA(ReplaceBlank(StrStrip(AsTypeStr(DropNA(ser))))))))

(***************************************************************************)
(* Unit harness of the Identifier Extractor.                               *)
(***************************************************************************)
CellAlphabet == {32, 67, 99}    \* ' ', 'C', 'c'

StrsUpTo(n, alphabet) == UNION {[1..k -> alphabet] : k \in 0..n}

Cells == {NA} \cup {Cell(t) : t \in StrsUpTo(MaxCellLen, CellAlphabet)}

\* The column of the documented example:
\* ["C001", " C002 ", "", "C001", None, "c001"]
ExampleColumn ==
    << Cell(<<67, 48, 48, 49>>), Cell(<<32, 67, 48, 48, 50, 32>>), Cell(<<>>),
       Cell(<<67, 48, 48, 49>>), NA, Cell(<<99, 48, 48, 49>>) >>

Columns == UNION {[1..k -> Cells] : k \in 0..MaxColumnLen} \cup {ExampleColumn}

\* Variables a unit harness leaves at rest.
RunIdle ==
    /\ stdin = <<>> /\ bom_file = None /\ chunk = 1
    /\ file_read = FALSE /\ detect_ran = FALSE /\ delimiter_used = NoneStr
    /\ df = NoTable /\ parts = <<>> /\ cli_args = <<>> /\ idx = 0 /\ success_count = 0
    /\ status = <<>> /\ calls = <<>> /\ outcomes = <<>>
    /\ exit_status = <<>> /\ ret = None

InitExtract ==
    /\ column \in Columns
    /\ pc = "call_extract"
    /\ args = None /\ fs = {} /\ fs_writable = TRUE
    /\ RunIdle

UnitExtract ==
    /\ pc = "call_extract"
    /\ ret' = ExtractPipeline(column)
    /\ pc' = "returned"
    /\ UNCHANGED <<df, args, fs, fs_writable, bom_file, stdin, chunk,
                   file_read, detect_ran, delimiter_used, parts, cli_args,
                   idx, success_count, status, calls, outcomes, exit_status,
                   column>>

SpecExtract == InitExtract /\ [][UnitExtract]_vars

(***************************************************************************)
(* Paths and the file system.  A path is relative or absolute, a sequence  *)
(* of components, and the extension of its last component.                 *)
(***************************************************************************)
Path(isabs, comps, ext) == [abs |-> isabs, comps |-> comps, ext |-> ext]

Dir(isabs, comps) == Path(isabs, comps, <<>>)

\* os.getcwd()
Cwd == <<"home", "user">>

\* bool(str): a path string is empty only when it is relative with no component
NonEmptyPath(p) == p # None /\ (p.abs \/ p.comps # <<>>)

\* Mutant of AbsPath: the path as typed.
AbsPath_AsTyped(p) == p

\* os.path.abspath
AbsPath(p) == IF p.abs THEN p ELSE [p EXCEPT !.abs = TRUE, !.comps = Cwd \o p.comps]

\* os.path.exists; the root always exists
Exists(disk, p) == p.comps = <<>> \/ p \in disk

\* os.makedirs: the leaf directory and every missing intermediate one
MakeDirs(disk, p) ==
    disk \cup {Dir(TRUE, SubSeq(p.comps, 1, k)) : k \in 1..Len(p.comps)}

(***************************************************************************)
(* build_easyeda2kicad_args                                                *)
(***************************************************************************)
Tok(flag) == [flag |-> flag, val |-> Dir(FALSE, <<>>)]

\* f"--output={output_dir}"
OutputTok(dir) == [flag |-> "--output=", val |-> dir]

\* Mutant of ModeToken: the single-artifact flags tested before full.
ModeToken_FullLast(a) ==
    IF a.symbol THEN Tok("--symbol")
    ELSE IF a.footprint THEN Tok("--footprint")
    ELSE IF a.model3d THEN Tok("--3d")
    ELSE Tok("--full")

\* lines 142-151
ModeToken(a) ==
    IF a.full THEN Tok("--full")
    ELSE IF a.symbol THEN Tok("--symbol")
    ELSE IF a.footprint THEN Tok("--footprint")
    ELSE IF a.model3d THEN Tok("--3d")
    ELSE Tok("--full")

\* lines 153-154
OverwriteTokens(a) == IF a.overwrite THEN <<Tok("--overwrite")>> ELSE <<>>

\* lines 156-160: the tokens, the disk afterwards, and whether makedirs raised
OutputStep(a, disk, writable) ==
    IF NonEmptyPath(a.output)
    THEN LET output_dir == AbsPath(a.output)
         IN  IF ~Exists(disk, output_dir)
             THEN IF writable
                  THEN [raised |-> FALSE, tokens |-> <<OutputTok(output_dir)>>,
                        fs |-> MakeDirs(disk, output_dir)]
                  ELSE [raised |-> TRUE, tokens |-> <<>>, fs |-> disk]
             ELSE [raised |-> FALSE, tokens |-> <<OutputTok(output_dir)>>,
                   fs |-> disk]
    ELSE [raised |-> FALSE, tokens |-> <<>>, fs |-> disk]

build_easyeda2kicad_args(a, disk, writable) ==
    LET out == OutputStep(a, disk, writable)
        cli == <<ModeToken(a)>> \o OverwriteTokens(a) \o out.tokens
    IN  [raised |-> out.raised,
         tokens |-> IF out.raised THEN <<>>
                    ELSE IF cli # <<>> THEN cli ELSE <<Tok("--full")>>,
         fs     |-> out.fs]

(***************************************************************************)
(* Unit harness of the Invocation Builder.                                 *)
(***************************************************************************)
OutputChoices ==
    { None,
      Dir(FALSE, <<>>),                 \* --output ""
      Dir(FALSE, <<"libs">>),           \* --output libs
      Dir(FALSE, <<"out", "libs">>),    \* --output out/libs
      Dir(TRUE, <<"tmp", "libs">>) }    \* --output /tmp/libs

DiskChoices ==
    { {},
      {Dir(TRUE, <<"tmp">>)},
      {Dir(TRUE, <<"tmp">>), Dir(TRUE, <<"tmp", "libs">>)},
      {Dir(TRUE, <<"home">>), Dir(TRUE, <<"home", "user">>)},
      {Dir(TRUE, <<"home">>), Dir(TRUE, <<"home", "user">>),
       Dir(TRUE, <<"home", "user", "libs">>)} }

\* The Namespace fields build_easyeda2kicad_args reads.
BuilderArgs ==
    [full : BOOLEAN, symbol : BOOLEAN, footprint : BOOLEAN, model3d : BOOLEAN,
     overwrite : BOOLEAN, output : OutputChoices]

InitBuild ==
    /\ args \in BuilderArgs
    /\ fs \in DiskChoices
    /\ fs_writable \in BOOLEAN
    /\ pc = "call_build"
    /\ column = <<>>
    /\ RunIdle

UnitBuild ==
    /\ pc = "call_build"
    /\ \E r \in {build_easyeda2kicad_args(args, fs, fs_writable)} :
          /\ ret' = [raised |-> r.raised, tokens |-> r.tokens]
          /\ fs' = r.fs
    /\ pc' = "returned"
    /\ UNCHANGED <<args, fs_writable, bom_file, stdin, chunk, file_read,
                   detect_ran, delimiter_used, df, parts, cli_args, idx,
                   success_count, status, calls, outcomes, exit_status, column>>

SpecBuild == InitBuild /\ [][UnitBuild]_vars

(***************************************************************************)
(* Text codecs: bytes to code points.  A decoder run with final = FALSE    *)
(* (more bytes may follow) keeps a truncated trailing sequence pending; a  *)
(* run with final = TRUE rejects it.                                       *)
(***************************************************************************)
Encodings == <<"utf-8-sig", "cp1252">>

IsCont(b) == b \in 128..191

\* Number of continuation bytes a UTF-8 lead byte announces (-1: no lead).
Utf8Need(b) ==
    IF b \in 194..223 THEN 1
    ELSE IF b \in 224..239 THEN 2
    ELSE IF b \in 240..244 THEN 3
    ELSE -1

\* The range the first continuation byte must lie in.
Utf8SecondOk(lead, b) ==
    IF lead = 224 THEN b \in 160..191
    ELSE IF lead = 237 THEN b \in 128..159
    ELSE IF lead = 240 THEN b \in 144..191
    ELSE IF lead = 244 THEN b \in 128..143
    ELSE IsCont(b)

Utf8Lead(b, n) ==
    IF n = 1 THEN b - 192 ELSE IF n = 2 THEN b - 224 ELSE b - 240

RECURSIVE Utf8Tail(_, _, _)
Utf8Tail(bs, n, acc) ==
    IF n = 0 THEN acc ELSE Utf8Tail(Tail(bs), n - 1, acc * 64 + (Head(bs) - 128))

\* The decoder's loop: acc is the text decoded so far.
RECURSIVE Utf8Scan(_, _, _)
Utf8Scan(bs, final, acc) ==
    IF bs = <<>> THEN [ok |-> TRUE, text |-> acc]
    ELSE LET b == Head(bs)
             n == Utf8Need(b)
             have == IF Len(bs) - 1 < n THEN Len(bs) - 1 ELSE n
         IN  IF b < 128 THEN Utf8Scan(Tail(bs), final, Append(acc, b))
             ELSE IF n = -1 THEN [ok |-> FALSE, text |-> <<>>]
             ELSE IF \E i \in 1..have :
                        IF i = 1 THEN ~Utf8SecondOk(b, bs[2]) ELSE ~IsCont(bs[i + 1])
             THEN [ok |-> FALSE, text |-> <<>>]
             ELSE IF have < n
             THEN [ok |-> ~final, text |-> IF final THEN <<>> ELSE acc]
             ELSE Utf8Scan(SubSeq(bs, n + 2, Len(bs)), final,
                           Append(acc, Utf8Tail(Tail(bs), n, Utf8Lead(b, n))))

Utf8Decode(bs, final) == Utf8Scan(bs, final, <<>>)

\* utf-8-sig: UTF-8 with one leading byte-order mark removed
Utf8SigDecode(bs, final) ==
    LET r == Utf8Decode(bs, final)
    IN  IF r.ok /\ r.text # <<>> /\ Head(r.text) = 65279
        THEN [ok |-> TRUE, text |-> Tail(r.text)]
        ELSE r

\* cp1252 leaves these bytes undefined
Cp1252Undefined == {129, 141, 143, 144, 157}

\* cp1252, bytes 0x80-0x9F
Cp1252High ==
    [b \in (128..159) \ Cp1252Undefined |->
        CASE b = 128 -> 8364 [] b = 130 -> 8218 [] b = 131 -> 402
          [] b = 132 -> 8222 [] b = 133 -> 8230 [] b = 134 -> 8224
          [] b = 135 -> 8225 [] b = 136 -> 710  [] b = 137 -> 8240
          [] b = 138 -> 352  [] b = 139 -> 8249 [] b = 140 -> 338
          [] b = 142 -> 381  [] b = 145 -> 8216 [] b = 146 -> 8217
          [] b = 147 -> 8220 [] b = 148 -> 8221 [] b = 149 -> 8226
          [] b = 150 -> 8211 [] b = 151 -> 8212 [] b = 152 -> 732
          [] b = 153 -> 8482 [] b = 154 -> 353  [] b = 155 -> 8250
          [] b = 156 -> 339  [] b = 158 -> 382  [] b = 159 -> 376]

Cp1252Decode(bs) ==
    IF \E i \in 1..Len(bs) : bs[i] \in Cp1252Undefined
    THEN [ok |-> FALSE, text |-> <<>>]
    ELSE [ok |-> TRUE,
          text |-> [i \in 1..Len(bs) |->
                      IF bs[i] \in 128..159 THEN Cp1252High[bs[i]] ELSE bs[i]]]

\* bytes.decode(enc); a failure is UnicodeDecodeError
Decode(enc, bs, final) ==
    IF enc = "utf-8-sig" THEN Utf8SigDecode(bs, final) ELSE Cp1252Decode(bs)

(***************************************************************************)
(* read_csv: delimiter detection                                           *)
(***************************************************************************)
TAB == 9
COMMA == 44
SEMICOLON == 59
LF == 10
CR == 13
QUOTE == 34

\* the string "auto"
AUTO == <<97, 117, 116, 111>>

IsNewline(c) == c = LF \/ c = CR

RECURSIVE NewlineFrom(_, _)
NewlineFrom(s, i) ==
    IF i > Len(s) THEN 0
    ELSE IF IsNewline(s[i]) THEN i ELSE NewlineFrom(s, i + 1)

\* Position of the first line terminator, 0 when there is none.
FirstNewline(s) == NewlineFrom(s, 1)

\* f.readline(): the text up to and including the first line terminator
ReadLine(text) ==
    IF FirstNewline(text) = 0 THEN text ELSE SubSeq(text, 1, FirstNewline(text))

\* The bytes the text layer has decoded when readline() returns: whole
\* chunks until one holds a line terminator, everything when none does.
BytesRead(bs, chunksize) ==
    LET p == FirstNewline(bs)
        n == ((p + chunksize - 1) \div chunksize) * chunksize
    IN  IF p = 0 \/ n > Len(bs) THEN Len(bs) ELSE n

\* lines 68-69: open(file_path, 'r', encoding=enc) and f.readline()
OpenReadLine(enc, bs, chunksize) ==
    LET r == Decode(enc, SubSeq(bs, 1, BytesRead(bs, chunksize)),
                    FirstNewline(bs) = 0)
    IN  [ok |-> r.ok, line |-> IF r.ok THEN ReadLine(r.text) ELSE <<>>]

Contains(s, c) == \E i \in 1..Len(s) : s[i] = c

\* Mutant of SniffDelimiter: the comma tested before the tab.
SniffDelimiter_CommaFirst(first_line) ==
    IF Contains(first_line, COMMA) THEN <<COMMA>>
    ELSE IF Contains(first_line, TAB) THEN <<TAB>>
    ELSE IF Contains(first_line, SEMICOLON) THEN <<SEMICOLON>>
    ELSE <<COMMA>>

\* lines 71-78
SniffDelimiter(first_line) ==
    IF Contains(first_line, TAB) THEN <<TAB>>
    ELSE IF Contains(first_line, COMMA) THEN <<COMMA>>
    ELSE IF Contains(first_line, SEMICOLON) THEN <<SEMICOLON>>
    ELSE <<COMMA>>

\* lines 66-81: the loop over the encodings, from encodings[k]
RECURSIVE DetectFrom(_, _, _, _)
DetectFrom(k, bs, delimiter, chunksize) ==
    IF k > Len(Encodings) THEN delimiter
    ELSE LET r == OpenReadLine(Encodings[k], bs, chunksize)
         IN  IF r.ok THEN SniffDelimiter(r.line)
             ELSE DetectFrom(k + 1, bs, delimiter, chunksize)

\* lines 64-81
DetectDelimiter(bs, delimiter, chunksize) ==
    IF delimiter = AUTO THEN DetectFrom(1, bs, delimiter, chunksize)
    ELSE delimiter

(***************************************************************************)
(* read_csv: the parse (pd.read_csv with dtype=str).  A table is its       *)
(* column names and its rows of str-or-NA cells.                           *)
(***************************************************************************)
\* Cell texts pd.read_csv reads as missing: "" and "NA" of its default list.
NaStrings == {<<>>, <<78, 65>>}

IsPrefix(d, t) == Len(d) <= Len(t) /\ SubSeq(t, 1, Len(d)) = d

\* One line into fields: quotechar '"' encloses delimiters and is dropped.
RECURSIVE FieldScan(_, _, _, _)
FieldScan(rest, delim, cur, inq) ==
    IF rest = <<>> THEN <<cur>>
    ELSE IF Head(rest) = QUOTE THEN FieldScan(Tail(rest), delim, cur, ~inq)
    ELSE IF ~inq /\ delim # <<>> /\ IsPrefix(delim, rest)
    THEN <<cur>> \o FieldScan(SubSeq(rest, Len(delim) + 1, Len(rest)), delim, <<>>, FALSE)
    ELSE FieldScan(Tail(rest), delim, Append(cur, Head(rest)), inq)

Fields(line, delim) == FieldScan(line, delim, <<>>, FALSE)

ToCell(t) == IF t \in NaStrings THEN NA ELSE Cell(t)

\* A data row under a header of n names: short rows are padded with NA.
Row(fields, n) ==
    [k \in 1..n |-> IF k <= Len(fields) THEN ToCell(fields[k]) ELSE NA]

\* The fields of every non-blank line, in order: \n, \r and \r\n end a line.
RECURSIVE ParseLines(_, _, _)
ParseLines(t, delim, acc) ==
    IF t = <<>> THEN acc
    ELSE LET p == FirstNewline(t)
             q == IF p > 0 /\ t[p] = CR /\ p < Len(t) /\ t[p + 1] = LF
                  THEN p + 1 ELSE p
         IN  IF p = 0 THEN Append(acc, Fields(t, delim))
             ELSE ParseLines(SubSeq(t, q + 1, Len(t)), delim,
                             IF p = 1 THEN acc
                             ELSE Append(acc, Fields(SubSeq(t, 1, p - 1), delim)))

\* The table of parsed records: the first is the header.
TableOf(recs) ==
    IF recs = <<>> THEN [err |-> "EmptyDataError", df |-> NoTable]
    ELSE IF \E i \in 2..Len(recs) : Len(recs[i]) > Len(recs[1])
    THEN [err |-> "ParserError", df |-> NoTable]
    ELSE [err |-> "none",
          df |-> [columns |-> recs[1],
                  rows |-> [i \in 1..(Len(recs) - 1) |->
                               Row(recs[i + 1], Len(recs[1]))]]]

\* pd.read_csv on decoded text
ParseCsv(text, delim) == TableOf(ParseLines(text, delim, <<>>))

\* lines 84-96: the loop over the encodings, from encodings[k]
RECURSIVE ReadFrom(_, _, _)
ReadFrom(k, bs, delimiter) ==
    IF k > Len(Encodings) THEN [raised |-> "ValueError", df |-> NoTable]
    ELSE IF Decode(Encodings[k], bs, TRUE).ok
    THEN [raised |-> ParseCsv(Decode(Encodings[k], bs, TRUE).text, delimiter).err,
          df |-> ParseCsv(Decode(Encodings[k], bs, TRUE).text, delimiter).df]
    ELSE ReadFrom(k + 1, bs, delimiter)

\* read_csv: what it raised ("none": it returned df), and the delimiter it
\* handed to the parser
read_csv(bs, delimiter, chunksize) ==
    ReadFrom(1, bs, DetectDelimiter(bs, delimiter, chunksize))
        @@ [delimiter |-> DetectDelimiter(bs, delimiter, chunksize),
            detected |-> delimiter = AUTO]

(***************************************************************************)
(* Unit harness of read_csv.                                               *)
(***************************************************************************)
MaxFileLen == 4
MaxChunk == 2

\* tab, line feed, comma, semicolon, 'A', and two bytes above 0x7F: 0x81 is
\* undefined in cp1252 and a continuation byte in UTF-8, 0xC3 is a UTF-8
\* lead byte and a letter in cp1252.
FileAlphabet == {9, 10, 44, 59, 65, 129, 195}

TextFile(bs) == [bytes |-> bs, book |-> None]

InitCsv ==
    /\ bom_file \in {TextFile(bs) : bs \in StrsUpTo(MaxFileLen, FileAlphabet)}
    /\ args \in [delimiter : {AUTO, <<SEMICOLON>>}]
    /\ chunk \in 1..MaxChunk
    /\ pc = "call_read_csv"
    /\ fs = {} /\ fs_writable = TRUE /\ column = <<>>
    /\ stdin = <<>> /\ file_read = FALSE /\ detect_ran = FALSE
    /\ delimiter_used = NoneStr
    /\ df = NoTable /\ parts = <<>> /\ cli_args = <<>> /\ idx = 0 /\ success_count = 0
    /\ status = <<>> /\ calls = <<>> /\ outcomes = <<>>
    /\ exit_status = <<>> /\ ret = None

UnitReadCsv ==
    /\ pc = "call_read_csv"
    /\ \E r \in {read_csv(bom_file.bytes, args.delimiter, chunk)} :
          /\ ret' = [raised |-> r.raised, df |-> r.df]
          /\ delimiter_used' = r.delimiter
          /\ detect_ran' = r.detected
    /\ file_read' = TRUE
    /\ pc' = "returned"
    /\ UNCHANGED <<df, args, fs, fs_writable, bom_file, stdin, chunk, parts,
                   cli_args, idx, success_count, status, calls, outcomes,
                   exit_status, column>>

SpecCsv == InitCsv /\ [][UnitReadCsv]_vars

(***************************************************************************)
(* detect_file_type, read_excel, extract_lcsc_parts                        *)
(***************************************************************************)
\* str.lower() on one code point (the ASCII letters)
Lower(c) == IF c \in 65..90 THEN c + 32 ELSE c

LowerStr(t) == [i \in 1..Len(t) |-> Lower(t[i])]

EXT_XLSX == <<46, 120, 108, 115, 120>>   \* ".xlsx"
EXT_XLS == <<46, 120, 108, 115>>         \* ".xls"
EXT_CSV == <<46, 99, 115, 118>>          \* ".csv"

\* lines 38-45; os.path.splitext(file_path)[1] is the path's ext
detect_file_type(file_path) ==
    IF LowerStr(file_path.ext) \in {EXT_XLSX, EXT_XLS} THEN "excel" ELSE "csv"

\* A workbook: its sheets in order, each a name and a table.  A file that is
\* no workbook has book = None and pd.read_excel raises on it.
SheetNamed(book, name) ==
    CHOOSE i \in 1..Len(book.sheets) : book.sheets[i].name = name

\* lines 47-58
read_excel(file, sheet_name) ==
    IF file.book = None THEN [raised |-> "Exception", df |-> NoTable]
    ELSE IF sheet_name # NoneStr /\ sheet_name # <<>>
    THEN IF \E i \in 1..Len(file.book.sheets) : file.book.sheets[i].name = sheet_name
         THEN [raised |-> "none",
               df |-> file.book.sheets[SheetNamed(file.book, sheet_name)].df]
         ELSE [raised |-> "ValueError", df |-> NoTable]
    ELSE IF file.book.sheets = <<>> THEN [raised |-> "ValueError", df |-> NoTable]
    ELSE [raised |-> "none", df |-> file.book.sheets[1].df]

ColumnIndex(table, column_name) ==
    CHOOSE k \in 1..Len(table.columns) :
        /\ table.columns[k] = column_name
        /\ \A j \in 1..(k - 1) : table.columns[j] # column_name

\* df[column_name]
SelectColumn(table, column_name) ==
    [i \in 1..Len(table.rows) |-> table.rows[i][ColumnIndex(table, column_name)]]

\* lines 104-112: df, or the ValueError every reader failure is turned into
ReadBom(bom_path, file, delimiter, sheet_name, chunksize) ==
    IF detect_file_type(bom_path) = "excel"
    THEN [raised |-> IF read_excel(file, sheet_name).raised = "none"
                     THEN "none" ELSE "ValueError",
          df |-> read_excel(file, sheet_name).df,
          delimiter |-> NoneStr, detected |-> FALSE]
    ELSE [raised |-> IF ReadFrom(1, file.bytes,
                           DetectDelimiter(file.bytes, delimiter, chunksize)
                        ).raised = "none"
                     THEN "none" ELSE "ValueError",
          df |-> ReadFrom(1, file.bytes,
                    DetectDelimiter(file.bytes, delimiter, chunksize)).df,
          delimiter |-> DetectDelimiter(file.bytes, delimiter, chunksize),
          detected |-> delimiter = AUTO]

\* line 118
HasColumn(table, column_name) ==
    \E k \in 1..Len(table.columns) : table.columns[k] = column_name

\* lines 118-135 on the table read: what is raised ("none": parts returned)
PartsOf(table, column_name) ==
    IF ~HasColumn(table, column_name)
    THEN [raised |-> "ValueError", parts |-> <<>>]
    ELSE [raised |-> "none",
          parts |-> ExtractPipeline(SelectColumn(table, column_name))]

\* lines 98-135
extract_lcsc_parts(bom_path, file, delimiter, column_name, sheet_name, chunksize) ==
    IF ReadBom(bom_path, file, delimiter, sheet_name, chunksize).raised # "none"
    THEN [raised |-> "ValueError", parts |-> <<>>]
    ELSE PartsOf(ReadBom(bom_path, file, delimiter, sheet_name, chunksize).df,
                 column_name)

(***************************************************************************)
(* parse_arguments                                                         *)
(***************************************************************************)
SUPPLIER_PART ==    \* "Supplier Part"
    <<83, 117, 112, 112, 108, 105, 101, 114, 32, 80, 97, 114, 116>>

\* argparse type=bool: bool(s) of the string given, True for any non-empty one
BoolOf(raw) == raw # <<>>

\* lines 24-36: absent options take their defaults
parse_arguments(argv) ==
    [bom |-> argv.bom,
     delimiter |-> IF argv.delimiter = NoneStr THEN AUTO ELSE argv.delimiter,
     sheet_name |-> argv.sheet_name,
     column |-> IF argv.column = NoneStr THEN SUPPLIER_PART ELSE argv.column,
     full |-> argv.full, symbol |-> argv.symbol, footprint |-> argv.footprint,
     overwrite |-> argv.overwrite, model3d |-> argv.model3d,
     output |-> argv.output,
     single_component |-> IF argv.single_component = NoneStr THEN TRUE
                          ELSE BoolOf(argv.single_component)]

(***************************************************************************)
(* download_component                                                      *)
(***************************************************************************)
\* How subprocess.run(cmd, check=True, ...) can end: exit status zero, a
\* non-zero exit status (CalledProcessError), no executable on the PATH
\* (FileNotFoundError), or another OSError such as PermissionError.
RunOutcomes == {"zero", "nonzero", "not_found", "os_error"}

\* line 167: cmd, as the executable, the shared tokens and the identifier of
\* the --lcsc_id= token
Command(part_number, easyeda_args) ==
    [exe |-> "easyeda2kicad", argv |-> easyeda_args, lcsc_id |-> part_number]

\* Mutant of download_component: a missing executable is not caught.
download_component_NotFoundRaised(outcome) ==
    IF outcome = "zero" THEN [raised |-> FALSE, value |-> TRUE]
    ELSE IF outcome = "nonzero" THEN [raised |-> FALSE, value |-> FALSE]
    ELSE [raised |-> TRUE, value |-> FALSE]

\* Mutant of download_component: a missing executable counts as a success.
download_component_NotFoundTrue(outcome) ==
    IF outcome = "zero" THEN [raised |-> FALSE, value |-> TRUE]
    ELSE IF outcome = "nonzero" THEN [raised |-> FALSE, value |-> FALSE]
    ELSE IF outcome = "not_found" THEN [raised |-> FALSE, value |-> TRUE]
    ELSE [raised |-> TRUE, value |-> FALSE]

\* lines 169-184: the value returned, or raised when the exception is not
\* one of the two the function catches
download_component(outcome) ==
    IF outcome = "zero" THEN [raised |-> FALSE, value |-> TRUE]
    ELSE IF outcome = "nonzero" THEN [raised |-> FALSE, value |-> FALSE]
    ELSE IF outcome = "not_found" THEN [raised |-> FALSE, value |-> FALSE]
    ELSE [raised |-> TRUE, value |-> FALSE]

(***************************************************************************)
(* The files and command lines main is run on.                             *)
(***************************************************************************)
TXT_LCSC == <<76, 67, 83, 67>>     \* "LCSC"
TXT_S1 == <<83, 49>>               \* "S1"
TXT_C1 == <<67, 49>>               \* "C1"
TXT_C2 == <<67, 50>>               \* "C2"

\* comma separated; identifiers C2, " C1 ", c1, C2
FileThreeParts ==
    TextFile(
        <<83, 117, 112, 112, 108, 105, 101, 114, 32, 80, 97, 114, 116, 44,
          81, 10, 67, 50, 44, 49, 10, 32, 67, 49, 32, 44, 50, 10, 99, 49,
          44, 51, 10, 67, 50, 44, 52, 10>>)

\* semicolon separated, 0xE9 in a cell: only cp1252 decodes it
FileSemicolon ==
    TextFile(
        <<81, 59, 83, 117, 112, 112, 108, 105, 101, 114, 32, 80, 97, 114,
          116, 10, 233, 59, 67, 49, 10>>)

\* no column named Supplier Part
FileOtherColumn ==
    TextFile(
        <<76, 67, 83, 67, 44, 81, 10, 67, 49, 44, 49, 10, 67, 50, 44, 49,
          10>>)

\* 0x81 alone: neither encoding decodes it
FileUndecodable ==
    TextFile(
        <<83, 117, 112, 112, 108, 105, 101, 114, 32, 80, 97, 114, 116, 10,
          129, 10>>)

\* the column holds only blank cells
FileNoParts ==
    TextFile(
        <<83, 117, 112, 112, 108, 105, 101, 114, 32, 80, 97, 114, 116, 44,
          81, 10, 32, 44, 49, 10, 44, 50, 10>>)

\* a workbook with the sheets "S1" (two identifiers) and "LCSC"; its bytes
\* start with the zip signature
FileWorkbook ==
    [bytes |-> <<80, 75, 3, 4>>,
     book |-> [sheets |-> <<
        [name |-> TXT_S1,
         df |-> [columns |-> <<SUPPLIER_PART>>,
                 rows |-> << <<Cell(TXT_C2)>>, <<NA>>, <<Cell(TXT_C1)>> >>]],
        [name |-> TXT_LCSC,
         df |-> [columns |-> <<TXT_LCSC>>, rows |-> << <<Cell(TXT_C1)>> >>]] >>]]

BomFiles ==
    {FileThreeParts, FileSemicolon, FileOtherColumn, FileUndecodable,
     FileNoParts, FileWorkbook}

BomCsv == Path(FALSE, <<"BOM">>, EXT_CSV)          \* --bom BOM.csv
BomXlsx == Path(FALSE, <<"BOM">>, <<46, 88, 76, 83, 88>>)   \* --bom BOM.XLSX

\* sys.argv: each option absent (None, NoneStr) or given
ArgvChoices ==
    [bom : {None, BomCsv, BomXlsx},
     delimiter : {NoneStr, <<SEMICOLON>>},
     sheet_name : {NoneStr, TXT_S1},
     column : {NoneStr, TXT_LCSC},
     full : {FALSE}, symbol : BOOLEAN, footprint : {FALSE}, model3d : {FALSE},
     overwrite : {FALSE},
     output : {None, Dir(FALSE, <<"libs">>)},
     single_component : {NoneStr, <<>>, <<70, 97, 108, 115, 101>>}]  \* "", "False"

\* Lines typed at the prompt; NoneStr is end of input.
StdinChoices == {NoneStr, <<>>, <<32>>, <<32, 67, 49, 32>>}

HomeDirs == {Dir(TRUE, <<"home">>), Dir(TRUE, <<"home", "user">>)}

(***************************************************************************)
(* main                                                                    *)
(***************************************************************************)
Init ==
    /\ args \in {parse_arguments(v) : v \in ArgvChoices}
    /\ bom_file \in IF args.bom = None THEN {None} ELSE BomFiles \cup {None}
    /\ fs = HomeDirs \cup (IF bom_file = None THEN {} ELSE {AbsPath(args.bom)})
    /\ fs_writable \in BOOLEAN
    /\ stdin \in StdinChoices
    /\ chunk \in 1..MaxChunk
    /\ pc = "start"
    /\ file_read = FALSE /\ detect_ran = FALSE /\ delimiter_used = NoneStr
    /\ df = NoTable /\ parts = <<>> /\ cli_args = <<>> /\ idx = 0 /\ success_count = 0
    /\ status = <<>> /\ calls = <<>> /\ outcomes = <<>>
    /\ exit_status = <<>> /\ column = <<>> /\ ret = None

Pending(l) == [i \in 1..Len(l) |-> "pending"]

\* The process ends: return from main (0) or exit(1) in the handler of
\* lines 240-242.
Exit(code) == pc' = "done" /\ exit_status' = <<code>>

\* Mutant of NextPart: a failed identifier is tried again.
NextPart_RetryFailed(i, ok) == IF ok THEN i + 1 ELSE i

\* the for loop of line 231 moves to the next element whatever the result
NextPart(i, ok) == i + 1

\* lines 190-200: parts = [] and the choice of the branch
MainStart ==
    /\ pc = "start"
    /\ pc' = IF ~NonEmptyPath(args.bom) /\ args.single_component
             THEN "input_part"
             ELSE IF NonEmptyPath(args.bom) /\ ~args.single_component
             THEN "check_bom"
             ELSE "check_parts"
    /\ UNCHANGED <<args, fs, fs_writable, bom_file, stdin, chunk, file_read,
                   detect_ran, delimiter_used, df, parts, cli_args, idx,
                   success_count, status, calls, outcomes, exit_status,
                   column, ret>>

\* lines 193-198: input() raises EOFError at end of input
InputPart ==
    /\ pc = "input_part"
    /\ IF stdin = NoneStr
       THEN Exit(1) /\ UNCHANGED <<parts, status>>
       ELSE LET part_number == Strip(stdin)
            IN  IF part_number = <<>>
                THEN Exit(0) /\ UNCHANGED <<parts, status>>
                ELSE /\ parts' = <<part_number>>
                     /\ status' = Pending(parts')
                     /\ pc' = "check_parts"
                     /\ UNCHANGED exit_status
    /\ UNCHANGED <<df, args, fs, fs_writable, bom_file, stdin, chunk, file_read,
                   detect_ran, delimiter_used, cli_args, idx, success_count,
                   calls, outcomes, column, ret>>

\* lines 202-206; args.bom is non-empty in this branch, so lines 207-212 are
\* never run
CheckBom ==
    /\ pc = "check_bom"
    /\ IF ~Exists(fs, AbsPath(args.bom))
       THEN Exit(1)
       ELSE pc' = "extract" /\ UNCHANGED exit_status
    /\ UNCHANGED <<args, fs, fs_writable, bom_file, stdin, chunk, file_read,
                   detect_ran, delimiter_used, df, parts, cli_args, idx,
                   success_count, status, calls, outcomes, column, ret>>

\* lines 214-219 with 104-112: the file is read into df
ReadFile ==
    /\ pc = "extract"
    /\ \E r \in {ReadBom(AbsPath(args.bom), bom_file, args.delimiter,
                         args.sheet_name, chunk)} :
          /\ file_read' = TRUE
          /\ detect_ran' = r.detected
          /\ delimiter_used' = r.delimiter
          /\ df' = r.df
          /\ IF r.raised # "none"
             THEN Exit(1)
             ELSE pc' = "columns" /\ UNCHANGED exit_status
    /\ UNCHANGED <<args, fs, fs_writable, bom_file, stdin, chunk, parts,
                   cli_args, idx, success_count, status, calls, outcomes,
                   column, ret>>

\* lines 214-219 with 114-135: the identifiers of the column
Extract ==
    /\ pc = "columns"
    /\ \E r \in {PartsOf(df, args.column)} :
          IF r.raised # "none"
          THEN Exit(1) /\ UNCHANGED <<parts, status>>
          ELSE /\ parts' = r.parts
               /\ status' = Pending(r.parts)
               /\ pc' = "check_parts"
               /\ UNCHANGED exit_status
    /\ UNCHANGED <<args, fs, fs_writable, bom_file, stdin, chunk, file_read,
                   detect_ran, delimiter_used, df, cli_args, idx,
                   success_count, calls, outcomes, column, ret>>

\* lines 221-223
CheckParts ==
    /\ pc = "check_parts"
    /\ IF parts = <<>>
       THEN Exit(0)
       ELSE pc' = "build" /\ UNCHANGED exit_status
    /\ UNCHANGED <<args, fs, fs_writable, bom_file, stdin, chunk, file_read,
                   detect_ran, delimiter_used, df, parts, cli_args, idx,
                   success_count, status, calls, outcomes, column, ret>>

\* lines 225-230
Build ==
    /\ pc = "build"
    /\ LET r == build_easyeda2kicad_args(args, fs, fs_writable)
       IN  /\ fs' = r.fs
           /\ IF r.raised
              THEN Exit(1) /\ UNCHANGED <<cli_args, idx, success_count>>
              ELSE /\ cli_args' = r.tokens
                   /\ success_count' = 0
                   /\ idx' = 1
                   /\ pc' = "loop"
                   /\ UNCHANGED exit_status
    /\ UNCHANGED <<df, args, fs_writable, bom_file, stdin, chunk, file_read,
                   detect_ran, delimiter_used, parts, status, calls, outcomes,
                   column, ret>>

\* lines 231-232 and 166-176: the next identifier, subprocess.run is called
StartDownload ==
    /\ pc = "loop"
    /\ idx <= Len(parts)
    /\ calls' = Append(calls, Command(parts[idx], cli_args))
    /\ status' = [status EXCEPT ![idx] = "running"]
    /\ pc' = "run"
    /\ UNCHANGED <<args, fs, fs_writable, bom_file, stdin, chunk, file_read,
                   detect_ran, delimiter_used, df, parts, cli_args, idx,
                   success_count, outcomes, exit_status, column, ret>>

\* lines 170-184 and 232-233: subprocess.run ends, the result is tallied
FinishDownload ==
    /\ pc = "run"
    /\ \E outcome \in RunOutcomes :
          LET r == download_component(outcome)
          IN  /\ outcomes' = Append(outcomes, outcome)
              /\ IF r.raised
                 THEN Exit(1) /\ UNCHANGED <<status, success_count, idx>>
                 ELSE /\ status' = [status EXCEPT ![idx] =
                                       IF r.value THEN "succeeded" ELSE "failed"]
                      /\ success_count' =
                            IF r.value THEN success_count + 1 ELSE success_count
                      /\ idx' = NextPart(idx, r.value)
                      /\ pc' = "loop"
                      /\ UNCHANGED exit_status
    /\ UNCHANGED <<args, fs, fs_writable, bom_file, stdin, chunk, file_read,
                   detect_ran, delimiter_used, df, parts, cli_args, calls, column,
                   ret>>

\* lines 235-238: the summary, and main returns
Summary ==
    /\ pc = "loop"
    /\ idx > Len(parts)
    /\ Exit(0)
    /\ UNCHANGED <<args, fs, fs_writable, bom_file, stdin, chunk, file_read,
                   detect_ran, delimiter_used, df, parts, cli_args, idx,
                   success_count, status, calls, outcomes, column, ret>>

Next ==
    \/ MainStart
    \/ InputPart
    \/ CheckBom
    \/ ReadFile
    \/ Extract
    \/ CheckParts
    \/ Build
    \/ StartDownload
    \/ FinishDownload
    \/ Summary

Spec == Init /\ [][Next]_vars

(***************************************************************************)
(* Claims.                                                                 *)
(***************************************************************************)
Returned == pc = "returned"

SetOf(l) == {l[i] : i \in 1..Len(l)}

\* Ordinal order stated directly: a and b agree before position k, where a
\* has ended or holds the smaller code point.
OrdLess(a, b) ==
    \E k \in 1..Len(b) :
        /\ \A j \in 1..(k - 1) : j <= Len(a) /\ a[j] = b[j]
        /\ (k > Len(a) \/ a[k] < b[k])

\* A cell's text without its surrounding whitespace, stated by positions.
Trimmed(s) ==
    LET ns == {i \in 1..Len(s) : ~IsSpace(s[i])}
    IN  IF ns = {} THEN <<>>
        ELSE SubSeq(s, CHOOSE i \in ns : \A j \in ns : i <= j,
                       CHOOSE i \in ns : \A j \in ns : j <= i)

TrimmedValues(ser) ==
    {Trimmed(ser[i].s) : i \in {j \in 1..Len(ser) : ~ser[j].na}} \ {<<>>}

\* C7: the extractor's list has no duplicate, no empty string and no string
\* with leading or trailing whitespace, is sorted ascending by ordinal
\* comparison, and holds exactly the trimmed non-empty values of the column
\* (the empty list when there are none).
C7_ExtractorOutput ==
    Returned =>
        /\ \A i, j \in 1..Len(ret) : i < j => OrdLess(ret[i], ret[j])
        /\ \A i \in 1..Len(ret) :
              /\ ret[i] # <<>>
              /\ ~IsSpace(ret[i][1])
              /\ ~IsSpace(ret[i][Len(ret[i])])
        /\ SetOf(ret) = TrimmedValues(column)
        /\ Len(ret) = Cardinality(TrimmedValues(column))

C7_Witness ==
    /\ Returned
    /\ Len(ret) >= 2
    /\ \E i \in 1..Len(column) : column[i].na
    /\ \E i \in 1..Len(column) : ~column[i].na /\ column[i].s = <<>>
    /\ \E i \in 1..Len(column) :
          ~column[i].na /\ Trimmed(column[i].s) \notin {<<>>, column[i].s}
    /\ \E i, j \in 1..Len(column) : i < j /\ column[i] = column[j]

\* C8 as stated: the example column yields ["C001", "c001", "C002"].
C8_AsStated ==
    (Returned /\ column = ExampleColumn) =>
        ret = << <<67, 48, 48, 49>>, <<99, 48, 48, 49>>, <<67, 48, 48, 50>> >>

\* C8 (amended): the example column yields ["C001", "C002", "c001"], the
\* ordinal order in which every upper-case letter precedes every lower-case
\* letter.
C8_ExampleOrdinal ==
    (Returned /\ column = ExampleColumn) =>
        ret = << <<67, 48, 48, 49>>, <<67, 48, 48, 50>>, <<99, 48, 48, 49>> >>

C8_Witness == Returned /\ column = ExampleColumn /\ Len(ret) = 3

ModeFlags == {"--full", "--symbol", "--footprint", "--3d"}

SetModes(a) ==
    {f \in {"--symbol", "--footprint", "--3d"} :
        \/ f = "--symbol" /\ a.symbol
        \/ f = "--footprint" /\ a.footprint
        \/ f = "--3d" /\ a.model3d}

\* C5: the builder emits exactly one mode token, as the first token; it is
\* --full when full is set or no mode flag is set, and without full it is the
\* token of the flag that is set when exactly one of symbol, footprint,
\* model3d is set.
C5_ModeResolution ==
    (Returned /\ ~ret.raised) =>
        /\ {i \in 1..Len(ret.tokens) : ret.tokens[i].flag \in ModeFlags} = {1}
        /\ (args.full \/ SetModes(args) = {}) => ret.tokens[1].flag = "--full"
        /\ (~args.full /\ Cardinality(SetModes(args)) = 1) =>
              ret.tokens[1].flag \in SetModes(args)

C5_Witness ==
    /\ Returned /\ ~ret.raised
    /\ args.full /\ args.symbol /\ args.model3d
    /\ ret.tokens[1].flag = "--full"

\* An output directory is given when --output carries a non-empty string.
OutputGiven(a) == a.output # None /\ a.output # Dir(FALSE, <<>>)

ExpectedOutputDir(a) ==
    IF a.output.abs THEN a.output
    ELSE Dir(TRUE, <<"home", "user">> \o a.output.comps)

\* C6: the builder returns the mode token, then --overwrite iff overwrite is
\* requested, then --output=<absolute path> iff an output directory is given,
\* and nothing else; a given directory exists when the call returns, and
\* without one the file system is unchanged.
C6_TokenList ==
    [][(pc = "call_build" /\ pc' = "returned" /\ ~ret'.raised) =>
        /\ ret'.tokens =
              <<ret'.tokens[1]>>
              \o (IF args.overwrite THEN <<Tok("--overwrite")>> ELSE <<>>)
              \o (IF OutputGiven(args)
                  THEN <<OutputTok(ExpectedOutputDir(args))>> ELSE <<>>)
        /\ ret'.tokens[1].flag \in ModeFlags
        /\ OutputGiven(args) =>
              /\ ExpectedOutputDir(args) \in fs'
              /\ fs \subseteq fs'
              /\ (ExpectedOutputDir(args) \in fs => fs' = fs)
        /\ ~OutputGiven(args) => fs' = fs
      ]_vars

C6_Witness ==
    /\ Returned /\ ~ret.raised
    /\ args.overwrite
    /\ args.output = Dir(FALSE, <<"out", "libs">>)
    /\ Len(ret.tokens) = 3
    /\ Dir(TRUE, <<"home", "user", "out", "libs">>) \in fs
    /\ Dir(TRUE, <<"home", "user", "out">>) \in fs

\* The first line of the file, as bytes: up to the first line terminator.
FirstLineBytes(bs) ==
    LET ends == {i \in 1..Len(bs) : bs[i] \in {10, 13}}
    IN  IF ends = {} THEN bs
        ELSE SubSeq(bs, 1, (CHOOSE i \in ends : \A j \in ends : i <= j) - 1)

HasByte(bs, b) == b \in {bs[i] : i \in 1..Len(bs)}

DecodableBySome(bs) ==
    \E k \in 1..Len(Encodings) : Decode(Encodings[k], bs, TRUE).ok

\* C9: with delimiter = auto and a file some candidate encoding decodes, the
\* delimiter handed to the parser is tab if the first line holds a tab, else
\* comma if it holds a comma, else semicolon if it holds a semicolon, else
\* comma; a pinned delimiter is used unchanged and nothing is detected.
C9_DelimiterDetection ==
    Returned =>
        LET line == FirstLineBytes(bom_file.bytes)
        IN  /\ (args.delimiter = <<97, 117, 116, 111>>
                    /\ DecodableBySome(bom_file.bytes)) =>
                  /\ detect_ran
                  /\ HasByte(line, 9) => delimiter_used = <<9>>
                  /\ (~HasByte(line, 9) /\ HasByte(line, 44)) =>
                        delimiter_used = <<44>>
                  /\ (~HasByte(line, 9) /\ ~HasByte(line, 44)
                        /\ HasByte(line, 59)) => delimiter_used = <<59>>
                  /\ (~HasByte(line, 9) /\ ~HasByte(line, 44)
                        /\ ~HasByte(line, 59)) => delimiter_used = <<44>>
            /\ args.delimiter # <<97, 117, 116, 111>> =>
                  delimiter_used = args.delimiter /\ ~detect_ran

\* A file only cp1252 decodes, whose first line holds a semicolon before a
\* tab and whose second line holds a comma.
C9_Witness ==
    /\ Returned
    /\ args.delimiter = <<97, 117, 116, 111>>
    /\ bom_file.bytes = <<59, 9, 195, 10>> \/ bom_file.bytes = <<195, 59, 10, 44>>
    /\ delimiter_used \in {<<9>>, <<59>>}
    /\ ret.raised = "none"

(***************************************************************************)
(* Claims about main and the batch.                                        *)
(***************************************************************************)
Caught == {"zero", "nonzero", "not_found"}

OnlyCaughtOutcomes == \A i \in 1..Len(outcomes) : outcomes[i] \in Caught

Ids(cs) == [i \in 1..Len(cs) |-> cs[i].lcsc_id]

Count(seq, S) == Cardinality({i \in 1..Len(seq) : seq[i] \in S})

\* The Namespace of a command line that gives no option but --bom.
DefaultOptions(a) ==
    /\ a.delimiter = <<97, 117, 116, 111>>
    /\ a.sheet_name = NoneStr
    /\ a.column = SUPPLIER_PART
    /\ ~a.full /\ ~a.symbol /\ ~a.footprint /\ ~a.model3d /\ ~a.overwrite
    /\ a.output = None
    /\ a.single_component

BomSupplied == NonEmptyPath(args.bom)

ExpectedParts ==
    extract_lcsc_parts(AbsPath(args.bom), bom_file, args.delimiter,
                       args.column, args.sheet_name, chunk)

\* C1 as stated: a run given --bom and otherwise default options, on a file
\* that exists, is readable and holds at least one identifier, reads the file
\* and invokes the downloader once for every extracted identifier.
C1_AsStated ==
    (/\ pc = "done"
     /\ BomSupplied /\ DefaultOptions(args)
     /\ bom_file # None
     /\ ExpectedParts.raised = "none" /\ ExpectedParts.parts # <<>>)
    => /\ file_read
       /\ parts = ExpectedParts.parts
       /\ OnlyCaughtOutcomes => Ids(calls) = ExpectedParts.parts

\* C2: the identifiers are attempted in list order, and when each invocation
\* ends with exit status zero, a non-zero exit status or a missing
\* executable, the batch ends only after every identifier was attempted: a
\* failed identifier is always followed by the attempt of the next one.
C2_NoEarlyAbort ==
    /\ Len(calls) <= Len(parts)
    /\ \A i \in 1..Len(calls) :
          calls[i].lcsc_id = parts[i] /\ calls[i].argv = cli_args
    /\ (pc = "done" /\ cli_args # <<>> /\ OnlyCaughtOutcomes) =>
          /\ Ids(calls) = parts
          /\ Len(outcomes) = Len(parts)
          /\ \A i \in 1..(Len(parts) - 1) :
                outcomes[i] # "zero" => status[i + 1] # "pending"

C2_Witness ==
    /\ pc = "done"
    /\ Len(parts) = 3
    /\ outcomes = <<"not_found", "nonzero", "zero">>
    /\ Len(calls) = 3

\* C3: during the loop 0 <= succeeded <= attempted <= total; after the loop
\* succeeded is the number of invocations that ended with exit status zero
\* and total - succeeded the number that ended with a non-zero status or
\* without an executable, total being the length of the identifier list.
C3_Tally ==
    /\ 0 <= success_count
    /\ success_count <= Len(calls)
    /\ Len(calls) <= Len(parts)
    /\ success_count <= Count(outcomes, {"zero"})
    /\ (pc = "done" /\ exit_status = <<0>> /\ cli_args # <<>>) =>
          /\ Len(outcomes) = Len(parts)
          /\ success_count = Count(outcomes, {"zero"})
          /\ Len(parts) - success_count = Count(outcomes, {"nonzero", "not_found"})

C3_Witness ==
    /\ pc = "done" /\ exit_status = <<0>>
    /\ outcomes = <<"zero", "nonzero", "zero">>
    /\ Len(parts) = 3 /\ success_count = 2

BomUndecodable ==
    /\ bom_file # None
    /\ detect_file_type(args.bom) = "csv"
    /\ ~DecodableBySome(bom_file.bytes)

BomLacksColumn ==
    /\ bom_file # None
    /\ ReadBom(AbsPath(args.bom), bom_file, args.delimiter, args.sheet_name,
               chunk).raised = "none"
    /\ ~HasColumn(ReadBom(AbsPath(args.bom), bom_file, args.delimiter,
                          args.sheet_name, chunk).df, args.column)

\* C4 as stated: the exit status is 0 on normal completion, also when
\* invocations fail, and 1 with no invocation made when the supplied path
\* does not exist, no encoding reads the file, the column is absent, or no
\* input path is supplied.
C4_AsStated ==
    pc = "done" =>
        /\ (cli_args # <<>> /\ OnlyCaughtOutcomes) => exit_status = <<0>>
        /\ (BomSupplied /\ bom_file = None) =>
              exit_status = <<1>> /\ calls = <<>>
        /\ (BomSupplied /\ BomUndecodable) =>
              exit_status = <<1>> /\ calls = <<>>
        /\ (BomSupplied /\ BomLacksColumn) =>
              exit_status = <<1>> /\ calls = <<>>
        /\ ~BomSupplied => exit_status = <<1>> /\ calls = <<>>

Terminal == {"succeeded", "failed"}

Transitions ==
    {<<"pending", "pending">>, <<"pending", "running">>,
     <<"running", "running">>, <<"running", "succeeded">>,
     <<"running", "failed">>, <<"succeeded", "succeeded">>,
     <<"failed", "failed">>}

Sequential(st, cs) ==
    /\ Cardinality({i \in 1..Len(st) : st[i] = "running"}) <= 1
    /\ \A i \in 1..Len(st) :
          st[i] # "pending" => \A j \in 1..(i - 1) : st[j] \in Terminal
    /\ Len(cs) = Cardinality({i \in 1..Len(st) : st[i] # "pending"})

\* C10: every step moves an identifier along pending -> running ->
\* succeeded or failed and leaves a terminal state as it is; each identifier
\* is invoked at most once; at most one identifier is running, and an
\* identifier is running or done only when all earlier ones are terminal.
C10_StateMachine ==
    [][/\ status # <<>> =>
             /\ Len(status') = Len(status)
             /\ \A i \in 1..Len(status) : <<status[i], status'[i]>> \in Transitions
       /\ Sequential(status', calls')
      ]_vars

C10_Witness ==
    /\ status = <<"succeeded", "failed", "running">>
    /\ Len(calls) = 3

====
